---- MODULE Spec2Model ----
(***************************************************************************)
(* A model of webhook-cli: the monitor loop (monitor_requests), the method *)
(* filter, extract_path, get_body_preview, get_requests, the one-shot      *)
(* operations show_logs and show_request_details, the body renderer and    *)
(* Config::join_url_segments.                                              *)
(*                                                                         *)
(* Strings are sequences of one-character strings; Utf8Width gives the     *)
(* number of bytes of a character where the code counts bytes.             *)
(***************************************************************************)
EXTENDS Integers, Sequences, FiniteSets, TLC

VARIABLES
    pc,             \* position of monitor_requests: idle, fetching, sleeping, cancelled, returned;
                    \* of a one-shot operation or pure function: call, awaiting, return
    last_seen_ids,  \* commands.rs:60   HashSet of record ids
    first_run,      \* commands.rs:61
    method_filter,  \* argument of monitor_requests: None or a string
    show_headers,   \* argument of monitor_requests
    full_body,      \* argument of monitor_requests
    out,            \* stdout lines / display calls of the current loop iteration
    errout,         \* stderr lines of the current loop iteration
    outstanding,    \* number of get_requests futures awaiting a response
    response,       \* history: the answer of the service to the fetch that just completed
    poll_kind,      \* history: none, baseline, delta, error (branch taken by the poll that just completed)
    marked,         \* history: per id, number of NEW REQUEST markers printed (0, 1, or 2 for more than once)
    rendered,       \* history: ids of the records rendered so far in the session
    fails,          \* history: failed fetches before the first successful one (saturating)
    successes,      \* history: successful fetches of the session (0, 1, or 2 for more than one)
    args,           \* inputs of the pure function under check
    result          \* its result

vars == <<pc, last_seen_ids, first_run, method_filter, show_headers, full_body,
          out, errout, outstanding, response, poll_kind, marked, rendered,
          fails, successes, args, result>>

(***************************************************************************)
(* Bounds                                                                  *)
(***************************************************************************)
NumIds == 2
MaxBatch == 2
MaxFails == 2
MaxMethodLen == 3
MaxFilterLen == 3
MaxPathLen == 4
MaxTokenLen == 2
MaxPad == 50
MaxLead == 1
MaxTail == 2
MaxTrail == 4
MaxPreviewLen == 3
MaxBodyLen == 3
MaxPaths == 2
MaxBaseLen == 3
MaxSegmentLen == 2
MaxSegments == 2

\* Option<T>: None is the empty sequence, Some(x) the sequence of x alone
None == <<>>
Some(x) == <<x>>

Min(a, b) == IF a < b THEN a ELSE b

RECURSIVE SeqsUpTo(_, _)
SeqsUpTo(S, n) ==
    IF n = 0 THEN {<<>>}
    ELSE LET shorter == SeqsUpTo(S, n - 1)
         IN shorter \cup {Append(s, x) : s \in {t \in shorter : Len(t) = n - 1}, x \in S}

(***************************************************************************)
(* Strings                                                                 *)
(***************************************************************************)
\* str::to_lowercase on the characters the model uses
ToLowerChar(c) ==
    CASE c = "G" -> "g"
      [] c = "E" -> "e"
      [] c = "T" -> "t"
      [] c = "P" -> "p"
      [] c = "O" -> "o"
      [] c = "S" -> "s"
      [] OTHER -> c

to_lowercase(s) == [i \in 1..Len(s) |-> ToLowerChar(s[i])]

\* the closure of the two filter sites: method_filter.is_none_or(|m| lower(method) = lower(m))
method_matches_prefix(method, filter) ==
    \/ filter = None
    \/ /\ filter # None
       /\ Len(filter[1]) <= Len(method)
       /\ SubSeq(to_lowercase(method), 1, Len(filter[1])) = to_lowercase(filter[1])

method_matches(method, filter) ==
    \/ filter = None
    \/ filter # None /\ to_lowercase(method) = to_lowercase(filter[1])

\* Iterator::filter(..).collect() keeps the order of the input: SelectSeq
filtered_requests(requests, filter) ==
    LET keep(req) == method_matches(req.method, filter)
    IN SelectSeq(requests, keep)

\* str::find: the index of the first match (0 stands for None)
Matches(s, t, i) ==
    /\ i \in 1..(Len(s) - Len(t) + 1)
    /\ SubSeq(s, i, i + Len(t) - 1) = t

find_last(s, t) ==
    LET hits == {i \in 1..(Len(s) + 1) : Matches(s, t, i)}
    IN IF hits = {} THEN 0 ELSE CHOOSE i \in hits : \A j \in hits : j <= i

find(s, t) ==
    LET hits == {i \in 1..(Len(s) + 1) : Matches(s, t, i)}
    IN IF hits = {} THEN 0 ELSE CHOOSE i \in hits : \A j \in hits : i <= j

extract_path(full_path, token) ==
    LET token_index == find(full_path, token)
    IN IF token_index # 0
       THEN LET after_token == SubSeq(full_path, token_index + Len(token), Len(full_path))
            IN IF after_token = <<>> THEN <<"/">> ELSE after_token
       ELSE full_path

\* bytes of a character in UTF-8; "e_acute" stands for U+00E9
Utf8Width(c) == IF c = "e_acute" THEN 2 ELSE 1

RECURSIVE ByteLen(_)
ByteLen(s) == IF s = <<>> THEN 0 ELSE Utf8Width(Head(s)) + ByteLen(Tail(s))

\* str::is_char_boundary
is_char_boundary(s, n) == \E k \in 0..Len(s) : ByteLen(SubSeq(s, 1, k)) = n

\* &s[..n] for n on a character boundary
ByteSlice(s, n) == SubSeq(s, 1, CHOOSE k \in 0..Len(s) : ByteLen(SubSeq(s, 1, k)) = n)

IsWhitespace(c) == c = " "

\* str::trim
trim(s) ==
    LET kept == {i \in 1..Len(s) : ~IsWhitespace(s[i])}
    IN IF kept = {} THEN <<>>
       ELSE SubSeq(s, CHOOSE i \in kept : \A j \in kept : i <= j,
                      CHOOSE i \in kept : \A j \in kept : j <= i)

BodyTag == "[BODY] "
EmptyBody == <<"[BODY] (empty)">>
\* the character U+2026
Ellipsis == "ELLIPSIS"
Panic == <<"panic">>

\* display.rs:333-345
get_body_preview(body, max_length) ==
    IF body # None /\ trim(body[1]) # <<>>
    THEN LET trimmed == trim(body[1])
             preview == SubSeq(trimmed, 1, Min(max_length, Len(trimmed)))
         IN <<BodyTag>> \o preview
            \o (IF Len(trimmed) > max_length THEN <<Ellipsis>> ELSE <<>>)
    ELSE EmptyBody

MainPreviewLimit == 50
MainPreviewCut == 47

\* main.rs:554-565: get_body_preview of main.rs, which cuts at a byte offset
main_get_body_preview(body) ==
    IF body # None /\ trim(body[1]) # <<>>
    THEN LET b == body[1]
         IN IF ByteLen(b) > MainPreviewLimit
            THEN IF is_char_boundary(b, MainPreviewCut)
                 THEN <<BodyTag>> \o trim(ByteSlice(b, MainPreviewCut))
                 ELSE Panic
            ELSE <<BodyTag>> \o trim(b)
    ELSE EmptyBody

(***************************************************************************)
(* The service and WebhookClient::get_requests                             *)
(***************************************************************************)
GET == <<"G", "E", "T">>
Post == <<"P", "o", "s", "t">>
get == <<"g", "e", "t">>

Ids == 1..NumIds
Methods == {GET, Post}
Filters == {None, Some(get)}
Records == [id : Ids, method : Methods]
Batches == SeqsUpTo(Records, MaxBatch)

StatusOk == 200
StatusNotFound == 404
StatusServerError == 500

\* the payload of a response: the JSON text of a list of records, or one of
\* two texts that do not decode as such a list
RecordsJson == "[records]"
Payloads == {"oops", "<html>"}

\* what the service can answer: no answer (transport error), or a status
\* with a payload that decodes to a list of records or does not decode
Responses ==
    {[net |-> "fail", status |-> 0, valid |-> FALSE, records |-> <<>>, text |-> ""]}
    \cup {[net |-> "ok", status |-> StatusOk, valid |-> TRUE, records |-> b,
           text |-> RecordsJson] : b \in Batches}
    \cup {[net |-> "ok", status |-> s, valid |-> FALSE, records |-> <<>>, text |-> t] :
             s \in {StatusOk, StatusNotFound, StatusServerError}, t \in Payloads}

NoResponse == [net |-> "none", status |-> 0, valid |-> FALSE, records |-> <<>>, text |-> ""]

Ok(requests) == [ok |-> TRUE, requests |-> requests, error |-> "none"]
Err(e) == [ok |-> FALSE, requests |-> <<>>, error |-> e]

\* what an anyhow error of get_requests tells: the step that failed, the
\* status it names (0 for none) and the response text it quotes (None for none)
Failure(kind, status, body) == [kind |-> kind, status |-> status, body |-> body]

\* reqwest StatusCode::is_success
is_success(status) == status >= 200 /\ status < 300

\* client.rs:26-68
get_requests(resp) ==
    IF resp.net = "fail" THEN Err(Failure("transport", 0, None))
    ELSE IF is_success(resp.status)
         THEN IF resp.valid THEN Ok(resp.records)
              ELSE Err(Failure("decode", 0, Some(resp.text)))
         ELSE IF resp.status = StatusNotFound THEN Ok(<<>>)
              ELSE Err(Failure("status", resp.status, Some(resp.text)))

\* main.rs:130-151: get_requests of main.rs, whose errors quote no response text
main_get_requests(resp) ==
    IF resp.net = "fail" THEN Err(Failure("transport", 0, None))
    ELSE IF is_success(resp.status)
         THEN IF resp.valid THEN Ok(resp.records)
              ELSE Err(Failure("decode", 0, None))
         ELSE IF resp.status = StatusNotFound THEN Ok(<<>>)
              ELSE Err(Failure("status", resp.status, None))

(***************************************************************************)
(* Rendering of the monitor                                                *)
(***************************************************************************)
Line(k, v) == [k |-> k, v |-> v]

\* commands.rs:107-120, one new record
NewLines(request) ==
    <<Line("NEW REQUEST", request.id), Line("summary", request.id)>>
    \o (IF show_headers THEN <<Line("headers", request.id)>> ELSE <<>>)
    \o (IF full_body THEN <<Line("full_body", request.id)>> ELSE <<Line("body", request.id)>>)
    \o <<Line("rule", 0)>>

\* commands.rs:88-98, one record of the baseline
BaselineLines_marked(request) ==
    <<Line("NEW REQUEST", request.id), Line("summary", request.id)>>
    \o (IF show_headers THEN <<Line("headers", request.id)>> ELSE <<>>)
    \o (IF full_body THEN <<Line("full_body", request.id), Line("blank", 0)>> ELSE <<>>)

BaselineLines(request) ==
    <<Line("summary", request.id)>>
    \o (IF show_headers THEN <<Line("headers", request.id)>> ELSE <<>>)
    \o (IF full_body THEN <<Line("full_body", request.id), Line("blank", 0)>> ELSE <<>>)

RECURSIVE RenderBaseline_newestFirst(_)
RenderBaseline_newestFirst(requests) ==
    IF requests = <<>> THEN <<>>
    ELSE RenderBaseline_newestFirst(Tail(requests)) \o BaselineLines(Head(requests))

\* commands.rs:88-98, the for loop over the filtered records
RECURSIVE RenderBaseline(_)
RenderBaseline(requests) ==
    IF requests = <<>> THEN <<>>
    ELSE BaselineLines(Head(requests)) \o RenderBaseline(Tail(requests))

\* commands.rs:107-120, the for loop over the new records
RECURSIVE RenderNew(_)
RenderNew(requests) ==
    IF requests = <<>> THEN <<>>
    ELSE NewLines(Head(requests)) \o RenderNew(Tail(requests))

IdsOf(s) == {s[i].id : i \in 1..Len(s)}

Count(s, id) == Cardinality({i \in 1..Len(s) : s[i].id = id})

\* commands.rs:103-106: the new records are collected before any of them is
\* rendered and inserted
new_requests_afterNewest(filtered, seen) ==
    LET keep(req) == req.id \notin seen /\ \A s \in seen : req.id > s
    IN SelectSeq(filtered, keep)

new_requests(filtered, seen) ==
    LET keep(req) == req.id \notin seen
    IN SelectSeq(filtered, keep)


(***************************************************************************)
(* monitor_requests                                                        *)
(***************************************************************************)
pureIdle == args = <<>> /\ result = <<>>

Init ==
    /\ pc = "idle"
    /\ last_seen_ids = {}
    /\ first_run = TRUE
    /\ method_filter \in Filters
    /\ show_headers \in BOOLEAN
    /\ full_body \in BOOLEAN
    /\ out = <<>>
    /\ errout = <<>>
    /\ outstanding = 0
    /\ response = NoResponse
    /\ poll_kind = "none"
    /\ marked = [id \in Ids |-> 0]
    /\ rendered = {}
    /\ fails = 0
    /\ successes = 0
    /\ pureIdle

\* commands.rs:49-64: the banner, the empty seen set, and the first get_requests
Start ==
    /\ pc = "idle"
    /\ pc' = "fetching"
    /\ out' = <<Line("banner", 0)>>
              \o (IF method_filter # None THEN <<Line("filter", 0)>> ELSE <<>>)
              \o <<Line("quit hint", 0), Line("rule", 0)>>
    /\ last_seen_ids' = {}
    /\ first_run' = TRUE
    /\ outstanding' = outstanding + 1
    /\ UNCHANGED <<method_filter, show_headers, full_body, errout, response, poll_kind,
                   marked, rendered, fails, successes, args, result>>

OnOk_insertsFetched(requests) ==
    LET filtered == filtered_requests(requests, method_filter)
    IN /\ errout' = <<>>
       /\ pc' = "sleeping"
       /\ successes' = Min(2, successes + 1)
       /\ IF first_run
          THEN /\ out' = IF filtered = <<>>
                         THEN <<Line("No requests yet", 0)>>
                         ELSE <<Line("Found", Len(filtered))>>
                              \o RenderBaseline(filtered)
               /\ last_seen_ids' = last_seen_ids \cup IdsOf(requests)
               /\ first_run' = FALSE
               /\ poll_kind' = "baseline"
               /\ UNCHANGED marked
          ELSE LET new == new_requests(filtered, last_seen_ids)
               IN /\ out' = RenderNew(new)
                  /\ last_seen_ids' = last_seen_ids \cup IdsOf(requests)
                  /\ marked' = [id \in Ids |-> Min(2, marked[id] + Count(new, id))]
                  /\ poll_kind' = "delta"
                  /\ UNCHANGED first_run
       /\ rendered' = rendered \cup {out'[i].v : i \in {j \in 1..Len(out') : out'[j].k = "summary"}}
       /\ UNCHANGED fails

\* commands.rs:65-122: the Ok arm
OnOk(requests) ==
    LET filtered == filtered_requests(requests, method_filter)
    IN /\ errout' = <<>>
       /\ pc' = "sleeping"
       /\ successes' = Min(2, successes + 1)
       /\ IF first_run
          THEN /\ out' = IF filtered = <<>>
                         THEN <<Line("No requests yet", 0)>>
                         ELSE <<Line("Found", Len(filtered))>>
                              \o RenderBaseline(filtered)
               /\ last_seen_ids' = last_seen_ids \cup IdsOf(filtered)
               /\ first_run' = FALSE
               /\ poll_kind' = "baseline"
               /\ UNCHANGED marked
          ELSE LET new == new_requests(filtered, last_seen_ids)
               IN /\ out' = RenderNew(new)
                  /\ last_seen_ids' = last_seen_ids \cup IdsOf(new)
                  /\ marked' = [id \in Ids |-> Min(2, marked[id] + Count(new, id))]
                  /\ poll_kind' = "delta"
                  /\ UNCHANGED first_run
       /\ rendered' = rendered \cup {out'[i].v : i \in {j \in 1..Len(out') : out'[j].k = "summary"}}
       /\ UNCHANGED fails

OnErr_clearsFirstRun(e) ==
    /\ errout' = <<Line("Error:", e)>>
    /\ out' = <<>>
    /\ pc' = "sleeping"
    /\ poll_kind' = "error"
    /\ fails' = IF first_run THEN Min(MaxFails, fails + 1) ELSE fails
    /\ first_run' = FALSE
    /\ UNCHANGED <<last_seen_ids, marked, rendered, successes>>

OnErr_resetsSeen(e) ==
    /\ errout' = <<Line("Error:", e)>>
    /\ out' = <<>>
    /\ pc' = "sleeping"
    /\ poll_kind' = "error"
    /\ fails' = IF first_run THEN Min(MaxFails, fails + 1) ELSE fails
    /\ last_seen_ids' = {}
    /\ UNCHANGED <<first_run, marked, rendered, successes>>

OnErr_propagates(e) ==
    /\ errout' = <<Line("Error:", e)>>
    /\ out' = <<>>
    /\ pc' = "returned"
    /\ poll_kind' = "error"
    /\ fails' = IF first_run THEN Min(MaxFails, fails + 1) ELSE fails
    /\ UNCHANGED <<last_seen_ids, first_run, marked, rendered, successes>>

OnErr_retriesAtOnce(e) ==
    /\ errout' = <<Line("Error:", e)>>
    /\ out' = <<>>
    /\ pc' = "fetching"
    /\ poll_kind' = "error"
    /\ fails' = IF first_run THEN Min(MaxFails, fails + 1) ELSE fails
    /\ UNCHANGED <<last_seen_ids, first_run, marked, rendered, successes>>

\* commands.rs:123-125: the Err arm
OnErr(e) ==
    /\ errout' = <<Line("Error:", e)>>
    /\ out' = <<>>
    /\ pc' = "sleeping"
    /\ poll_kind' = "error"
    /\ fails' = IF first_run THEN Min(MaxFails, fails + 1) ELSE fails
    /\ UNCHANGED <<last_seen_ids, first_run, marked, rendered, successes>>

\* commands.rs:64-128: get_requests completes, its result is matched, and the
\* loop reaches tokio::time::sleep
Complete ==
    /\ pc = "fetching"
    /\ \E resp \in Responses :
          LET r == get_requests(resp)
          IN /\ response' = resp
             /\ IF r.ok THEN OnOk(r.requests) ELSE OnErr(r.error)
    /\ outstanding' = outstanding - 1
    /\ UNCHANGED <<method_filter, show_headers, full_body, args, result>>

Wake_overlapping ==
    /\ pc \in {"sleeping", "fetching"}
    /\ pc' = "fetching"
    /\ outstanding' = outstanding + 1
    /\ out' = <<>>
    /\ errout' = <<>>
    /\ response' = NoResponse
    /\ poll_kind' = "none"
    /\ UNCHANGED <<last_seen_ids, first_run, method_filter, show_headers, full_body,
                   marked, rendered, fails, successes, args, result>>

Wake_afterCancel ==
    /\ pc \in {"sleeping", "cancelled"}
    /\ pc' = "fetching"
    /\ outstanding' = outstanding + 1
    /\ out' = <<>>
    /\ errout' = <<>>
    /\ response' = NoResponse
    /\ poll_kind' = "none"
    /\ UNCHANGED <<last_seen_ids, first_run, method_filter, show_headers, full_body,
                   marked, rendered, fails, successes, args, result>>

\* commands.rs:128 and 63-64: the sleep is over and the loop calls get_requests again
Wake ==
    /\ pc = "sleeping"
    /\ pc' = "fetching"
    /\ outstanding' = outstanding + 1
    /\ out' = <<>>
    /\ errout' = <<>>
    /\ response' = NoResponse
    /\ poll_kind' = "none"
    /\ UNCHANGED <<last_seen_ids, first_run, method_filter, show_headers, full_body,
                   marked, rendered, fails, successes, args, result>>

\* Ctrl+C while the task is suspended at one of its two awaits: no handler is
\* installed, the process ends and the pending future is dropped
Interrupt ==
    /\ pc \in {"fetching", "sleeping"}
    /\ pc' = "cancelled"
    /\ outstanding' = 0
    /\ out' = <<>>
    /\ errout' = <<>>
    /\ response' = NoResponse
    /\ poll_kind' = "none"
    /\ UNCHANGED <<last_seen_ids, first_run, method_filter, show_headers, full_body,
                   marked, rendered, fails, successes, args, result>>

Next == Start \/ Complete \/ Wake \/ Interrupt

Spec == Init /\ [][Next]_vars

\* The loop under fairness: the 30 s client timeout (client.rs:16) ends every
\* pending fetch and the timer ends every sleep.  The two rendering flags do
\* not influence the control flow and are left off here.
InitLive == Init /\ show_headers = FALSE /\ full_body = FALSE

SpecLive == InitLive /\ [][Next]_vars /\ WF_vars(Start) /\ WF_vars(Complete) /\ WF_vars(Wake)

(***************************************************************************)
(* The pure functions, each applied to inputs drawn by its Init            *)
(***************************************************************************)
MonitorNotRunning ==
    /\ last_seen_ids = {}
    /\ first_run = TRUE
    /\ method_filter = None
    /\ show_headers = FALSE
    /\ full_body = FALSE
    /\ out = <<>>
    /\ errout = <<>>
    /\ outstanding = 0
    /\ response = NoResponse
    /\ poll_kind = "none"
    /\ marked = [id \in Ids |-> 0]
    /\ rendered = {}
    /\ fails = 0
    /\ successes = 0

Return(value) ==
    /\ pc = "call"
    /\ pc' = "return"
    /\ result' = value
    /\ UNCHANGED <<last_seen_ids, first_run, method_filter, show_headers, full_body,
                   out, errout, outstanding, response, poll_kind, marked, rendered, fails,
                   successes, args>>

MethodAlphabet == {"G", "g", "E", "e", "T", "t"}

InitFilter ==
    /\ pc = "call"
    /\ args \in [method : SeqsUpTo(MethodAlphabet, MaxMethodLen),
                  filter : {None} \cup {Some(f) : f \in SeqsUpTo(MethodAlphabet, MaxFilterLen)}]
    /\ result = <<>>
    /\ MonitorNotRunning

\* commands.rs:66-73 and 150-157 on a fetch of one record: is it kept?
ApplyFilter ==
    Return(filtered_requests(<<[id |-> 1, method |-> args.method]>>, args.filter) # <<>>)

SpecFilter == InitFilter /\ [][ApplyFilter]_vars

PathAlphabet == {"/", "t", "a"}

InitPath ==
    /\ pc = "call"
    /\ args \in [full_path : SeqsUpTo(PathAlphabet, MaxPathLen),
                  token : SeqsUpTo(PathAlphabet, MaxTokenLen)]
    /\ result = <<>>
    /\ MonitorNotRunning

ApplyExtractPath == Return(extract_path(args.full_path, args.token))

SpecPath == InitPath /\ [][ApplyExtractPath]_vars

BodyAlphabet == {"a", " ", "e_acute"}

Pad(n) == [i \in 1..n |-> "a"]

\* bodies long enough for the cut of main.rs: a few free characters around
\* two runs of "a"
Bodies ==
    {lead \o Pad(n) \o tail \o Pad(k) :
        lead \in SeqsUpTo(BodyAlphabet, MaxLead), n \in 0..MaxPad,
        tail \in SeqsUpTo(BodyAlphabet, MaxTail), k \in 0..MaxTrail}

InitPreview ==
    /\ pc = "call"
    /\ args \in [body : {None} \cup {Some(b) : b \in Bodies},
                  max_length : 0..MaxPreviewLen \cup {MainPreviewCut}]
    /\ result = <<>>
    /\ MonitorNotRunning

\* display.rs:26, print_request_summary
ApplyPreview ==
    Return([by |-> "display.rs", preview |-> get_body_preview(args.body, args.max_length)])

\* main.rs:427, print_request_summary, whose preview has no length argument
ApplyPreviewMain ==
    /\ args.max_length = MainPreviewCut
    /\ Return([by |-> "main.rs", preview |-> main_get_body_preview(args.body)])

NextPreview == ApplyPreview \/ ApplyPreviewMain

SpecPreview == InitPreview /\ [][NextPreview]_vars

(***************************************************************************)
(* Properties of the monitor                                               *)
(***************************************************************************)
MarkerIds(lines) == {lines[i].v : i \in {j \in 1..Len(lines) : lines[j].k = "NEW REQUEST"}}

HasMarker(lines) == \E i \in 1..Len(lines) : lines[i].k = "NEW REQUEST"

SummaryIds(lines) ==
    LET isSummary(l) == l.k = "summary"
        summaries == SelectSeq(lines, isSummary)
    IN [i \in 1..Len(summaries) |-> summaries[i].v]

\* the response is one that get_requests turns into an error
FailedResponse(resp) ==
    \/ resp.net = "fail"
    \/ resp.net = "ok" /\ resp.status = StatusOk /\ ~resp.valid
    \/ resp.net = "ok" /\ resp.status \notin {StatusOk, StatusNotFound}

\* C1: over a whole session, whatever the polls return, no record id is
\* printed with the NEW REQUEST marker more than once.
C1_NewMarkerAtMostOnce == \A id \in Ids : marked[id] <= 1

\* C2: no record displayed by the baseline poll carries the NEW REQUEST
\* marker although the seen set was empty before that poll; the marker is
\* only printed by polls after the baseline.
C2_BaselineNeverMarked ==
    /\ first_run => last_seen_ids = {} /\ \A id \in Ids : marked[id] = 0
    /\ poll_kind = "baseline" => ~HasMarker(out)
    /\ HasMarker(out) => poll_kind = "delta" /\ successes >= 2

C2_Witness ==
    /\ pc = "sleeping" /\ poll_kind = "baseline"
    /\ \E i \in 1..Len(out) : out[i].k = "summary"

\* C3: the baseline is the first successful fetch, after any number of
\* failed ones: it displays every filtered record in order without the
\* marker and puts exactly their ids in the seen set (nothing when the batch
\* is empty); only later successful fetches classify records as new.
C3_BaselineIsFirstSuccess ==
    /\ first_run <=> successes = 0
    /\ (pc = "sleeping" /\ successes = 1) => poll_kind \in {"baseline", "error"}
    /\ (pc = "sleeping" /\ poll_kind = "baseline") =>
          LET shown == {i \in 1..Len(response.records) :
                           method_filter = None
                           \/ to_lowercase(response.records[i].method) = to_lowercase(method_filter[1])}
          IN /\ successes = 1
             /\ ~HasMarker(out)
             /\ Len(SummaryIds(out)) = Cardinality(shown)
             /\ \A n \in 1..Len(SummaryIds(out)) :
                   \E i \in shown : /\ Cardinality({j \in shown : j <= i}) = n
                                    /\ SummaryIds(out)[n] = response.records[i].id
             /\ last_seen_ids = {response.records[i].id : i \in shown}
    /\ poll_kind = "delta" => successes >= 2

C3_Witness ==
    /\ pc = "sleeping" /\ poll_kind = "baseline" /\ fails >= 2
    /\ Len(SummaryIds(out)) >= 1
    /\ Len(SummaryIds(out)) < Len(response.records)

\* C4: a failed fetch is reported on stderr, renders nothing, leaves the
\* seen set and the first-run flag as they were, and goes to the sleep.
C4_FailedFetchFrame ==
    [][(pc = "fetching" /\ pc' # "cancelled" /\ FailedResponse(response')) =>
          /\ Len(errout') = 1 /\ errout'[1].k = "Error:"
          /\ out' = <<>>
          /\ last_seen_ids' = last_seen_ids
          /\ first_run' = first_run
          /\ marked' = marked
          /\ pc' = "sleeping"]_vars

C4_Witness ==
    /\ pc = "sleeping" /\ poll_kind = "error" /\ FailedResponse(response)
    /\ last_seen_ids # {} /\ ~first_run

\* C5: the loop has no terminal state of its own: it never returns, and
\* after every fetch outcome it issues another fetch unless it is cancelled.
C5_AlwaysPollsAgain ==
    /\ [](pc # "returned")
    /\ (pc = "sleeping") ~> (pc = "fetching" \/ pc = "cancelled")

C5_Witness == pc = "fetching" /\ fails >= 2 /\ first_run

\* C6: at most one fetch is outstanding, and a fetch is only issued when
\* none is pending and the previous batch has been classified and rendered.
C6_OneFetchOutstanding ==
    /\ [](outstanding \in {0, 1} /\ (outstanding = 1 <=> pc = "fetching"))
    /\ [][outstanding' > outstanding =>
             outstanding = 0 /\ pc \in {"idle", "sleeping"}]_vars

C6_Witness == pc = "fetching" /\ outstanding = 1 /\ successes >= 1

\* C7: once the interrupt has arrived at a suspension point the session is
\* over: no fetch is pending or issued and nothing more is rendered.
C7_InterruptEndsSession ==
    /\ [](pc = "cancelled" => outstanding = 0 /\ out = <<>> /\ errout = <<>>)
    /\ [][pc = "cancelled" => pc' = "cancelled"]_vars
    /\ [][(pc \in {"fetching", "sleeping"} /\ pc' = "cancelled") =>
             /\ last_seen_ids' = last_seen_ids /\ marked' = marked
             /\ out' = <<>> /\ outstanding' = 0]_vars

C7_Witness == pc = "cancelled" /\ successes >= 1 /\ last_seen_ids # {}


(***************************************************************************)
(* Properties of the pure functions                                        *)
(***************************************************************************)
CasePairs == {{"G", "g"}, {"E", "e"}, {"T", "t"}}

SameLetter(c, d) == c = d \/ {c, d} \in CasePairs

EqIgnoreCase(a, b) == Len(a) = Len(b) /\ \A i \in 1..Len(a) : SameLetter(a[i], b[i])

\* C8: without a filter every record is kept; with one, exactly the records
\* whose method equals it up to letter case (same length, same letters).
C8_FilterIsCaseInsensitiveEquality ==
    pc = "return" =>
        (result <=> (args.filter = None
                     \/ (args.filter # None /\ EqIgnoreCase(args.method, args.filter[1]))))

C8_Witness ==
    /\ pc = "return" /\ args.filter = Some(get) /\ args.method = GET /\ result = TRUE

Occurs(p, t, i) ==
    /\ i >= 1 /\ i + Len(t) - 1 <= Len(p)
    /\ \A k \in 1..Len(t) : p[i + k - 1] = t[k]

TextAfter(p, t, i) == [k \in 1..(Len(p) - (i + Len(t) - 1)) |-> p[i + Len(t) - 1 + k]]

\* C9: extract_path returns the text after the first occurrence of the
\* token, "/" when that text is empty, and the path itself when the token
\* does not occur.
C9_ExtractPath ==
    pc = "return" =>
        LET p == args.full_path
            t == args.token
        IN /\ (\A i \in 1..(Len(p) + 1) : ~Occurs(p, t, i)) => result = p
           /\ \A i \in 1..(Len(p) + 1) :
                 (Occurs(p, t, i) /\ \A j \in 1..(i - 1) : ~Occurs(p, t, j)) =>
                     /\ TextAfter(p, t, i) # <<>> => result = TextAfter(p, t, i)
                     /\ TextAfter(p, t, i) = <<>> => result = <<"/">>

C9_Witness ==
    /\ pc = "return" /\ args.token # <<>>
    /\ \E i, j \in 1..Len(args.full_path) :
          /\ i < j
          /\ Occurs(args.full_path, args.token, i)
          /\ Occurs(args.full_path, args.token, j)
          /\ result = TextAfter(args.full_path, args.token, i)
          /\ result # TextAfter(args.full_path, args.token, j)


Blank(body) == body = None \/ \A k \in 1..Len(body[1]) : IsWhitespace(body[1][k])

\* b[i..j] is b without its leading and trailing whitespace
TrimmedAt(b, i, j) ==
    /\ i <= j
    /\ ~IsWhitespace(b[i]) /\ ~IsWhitespace(b[j])
    /\ \A k \in 1..(i - 1) : IsWhitespace(b[k])
    /\ \A k \in (j + 1)..Len(b) : IsWhitespace(b[k])

\* the preview the claim describes for body and max_length n
PreviewAsClaimed(p, body, n) ==
    IF Blank(body) THEN p = EmptyBody
    ELSE /\ Len(p) >= 1 /\ p[1] = BodyTag
         /\ \E i, j \in 1..Len(body[1]) :
               /\ TrimmedAt(body[1], i, j)
               /\ LET len == j - i + 1
                      m == IF n < len THEN n ELSE len
                  IN /\ Len(p) = m + (IF len > n THEN 2 ELSE 1)
                     /\ \A k \in 1..m : p[k + 1] = body[1][i + k - 1]
                     /\ len > n => p[m + 2] = Ellipsis

\* C10: the body preview never fails and never cuts inside a character: for
\* a non-blank body it is the first min(max_length, length) characters of
\* the trimmed body, with the ellipsis exactly when the trimmed body is
\* longer than max_length; for an absent or blank body it is the
\* empty-body marker.
C10_PreviewTotalAndTruncated ==
    pc = "return" => PreviewAsClaimed(result.preview, args.body, args.max_length)

\* the same statement for get_body_preview of display.rs alone
PreviewOfDisplayAsClaimed ==
    (pc = "return" /\ result.by = "display.rs") =>
        PreviewAsClaimed(result.preview, args.body, args.max_length)


\* the preview of main.rs panics on some body
PreviewPanics == pc = "return" /\ result.preview = Panic

(***************************************************************************)
(* Properties of the classification of a poll                              *)
(***************************************************************************)
\* number of summaries of the record id among the lines
Summaries(lines, id) ==
    Cardinality({i \in 1..Len(lines) : lines[i].k = "summary" /\ lines[i].v = id})

\* the positions of the fetched records that pass the method filter
Passing(requests) ==
    {i \in 1..Len(requests) :
        method_filter = None
        \/ to_lowercase(requests[i].method) = to_lowercase(method_filter[1])}

\* C19: in a poll after the baseline each displayed id enters the seen set
\* before the next record of the batch is tested, so a batch that holds the
\* same unseen id twice displays that id only once.
C19_DuplicateInBatchDisplayedOnce ==
    (pc = "sleeping" /\ poll_kind = "delta") =>
        \A id \in Ids : Summaries(out, id) <= 1

\* C20: no fetched record that passes the filter is skipped: a passing
\* record whose id was not displayed before is displayed by the poll that
\* fetched it, as baseline in the first successful poll and as new in the
\* later ones, and whatever the seen set holds has been displayed.
C20_NoPassingRecordSkipped ==
    /\ [](last_seen_ids \subseteq rendered)
    /\ [][(pc = "fetching" /\ pc' = "sleeping" /\ ~FailedResponse(response')) =>
             LET requests == get_requests(response').requests
             IN /\ poll_kind' = IF successes = 0 THEN "baseline" ELSE "delta"
                /\ \A i \in Passing(requests) :
                      /\ requests[i].id \notin rendered =>
                            /\ Summaries(out', requests[i].id) >= 1
                            /\ poll_kind' = "delta" => requests[i].id \in MarkerIds(out')
                      /\ requests[i].id \in rendered']_vars

C20_Witness ==
    /\ pc = "sleeping" /\ poll_kind = "delta" /\ fails >= 1
    /\ last_seen_ids # {}
    /\ Len(SummaryIds(out)) >= 1
    /\ Len(SummaryIds(out)) < Len(response.records)

(***************************************************************************)
(* get_requests applied to every answer of the service                     *)
(***************************************************************************)
StatusCreated == 201

FetchStatuses == {StatusOk, StatusCreated, StatusNotFound, StatusServerError}

FetchResponses ==
    {[net |-> "fail", status |-> 0, valid |-> FALSE, records |-> <<>>, text |-> ""]}
    \cup {[net |-> "ok", status |-> s, valid |-> TRUE, records |-> b, text |-> RecordsJson] :
             s \in FetchStatuses, b \in Batches}
    \cup {[net |-> "ok", status |-> s, valid |-> FALSE, records |-> <<>>, text |-> t] :
             s \in FetchStatuses, t \in Payloads}

InitFetch ==
    /\ pc = "call"
    /\ args \in [resp : FetchResponses]
    /\ result = <<>>
    /\ MonitorNotRunning

ApplyGetRequests == Return([by |-> "client.rs", r |-> get_requests(args.resp)])

ApplyGetRequestsMain == Return([by |-> "main.rs", r |-> main_get_requests(args.resp)])

NextFetch == ApplyGetRequests \/ ApplyGetRequestsMain

SpecFetch == InitFetch /\ [][NextFetch]_vars

\* the mapping of the answer resp to the result r that the claims describe
MappedAsClaimed(resp, r) ==
    resp.net = "ok" =>
        /\ resp.status = StatusNotFound => r = Ok(<<>>)
        /\ (~is_success(resp.status) /\ resp.status # StatusNotFound) =>
              /\ ~r.ok
              /\ r.error.status = resp.status
              /\ r.error.body = Some(resp.text)
        /\ (is_success(resp.status) /\ resp.valid) => r = Ok(resp.records)

\* C16: get_requests maps "not found" to a successful empty sequence, any
\* other non-success status to an error that carries the status and the
\* response body, and a success status to the decoded records.
C16_ResponseMapping ==
    pc = "return" => MappedAsClaimed(args.resp, result.r)

\* the same statement for get_requests of client.rs alone
GetRequestsOfClientAsClaimed ==
    (pc = "return" /\ result.by = "client.rs") => MappedAsClaimed(args.resp, result.r)

\* in the monitor a "not found" poll takes the Ok arm with zero records
NotFoundPollIsEmptySuccess ==
    (pc = "sleeping" /\ response.net = "ok" /\ response.status = StatusNotFound) =>
        /\ errout = <<>>
        /\ poll_kind \in {"baseline", "delta"}
        /\ SummaryIds(out) = <<>>

\* C18: a success status with a payload that does not decode as a sequence
\* of records gives an error, never a sequence, and the error carries the
\* raw payload text.
C18_DecodeErrorCarriesPayload ==
    (pc = "return" /\ args.resp.net = "ok" /\ is_success(args.resp.status)
     /\ ~args.resp.valid) =>
        /\ ~result.r.ok
        /\ result.r.error.kind = "decode"
        /\ result.r.error.body = Some(args.resp.text)

\* the same statement for get_requests of client.rs alone
DecodeErrorOfClientAsClaimed ==
    (pc = "return" /\ result.by = "client.rs" /\ args.resp.net = "ok"
     /\ is_success(args.resp.status) /\ ~args.resp.valid) =>
        /\ ~result.r.ok
        /\ result.r.error.kind = "decode"
        /\ result.r.error.body = Some(args.resp.text)

(***************************************************************************)
(* The one-shot operations show_logs and show_request_details              *)
(***************************************************************************)
\* commands.rs:206: the window show_request_details asks for
DetailsWindow == 100

\* the --count of the logs command: cli.rs:47-48 has the default
LogCounts == {1, 50}

\* Result<()> of an operation
Done == [ok |-> TRUE, error |-> "none"]
Failed(e) == [ok |-> FALSE, error |-> e]

\* commands.rs:179-188: the for loop over the filtered records
RECURSIVE RenderLogs(_)
RenderLogs(requests) ==
    IF requests = <<>> THEN <<>>
    ELSE <<Line("summary", Head(requests).id)>>
         \o (IF show_headers THEN <<Line("headers", Head(requests).id)>> ELSE <<>>)
         \o (IF full_body THEN <<Line("full_body", Head(requests).id), Line("blank", 0)>>
             ELSE <<>>)
         \o RenderLogs(Tail(requests))

\* display.rs:152-260: the sections of one record; the query parameter
\* section stands for the lines 195-202, which print it when there are some
print_request_details(request) ==
    <<Line("REQUEST DETAILS", 0), Line("ID", request.id), Line("Method", request.method),
      Line("HEADERS", request.id), Line("QUERY PARAMETERS", request.id),
      Line("REQUEST BODY", request.id)>>

find_by_id_last(requests, request_id) ==
    LET hits == {i \in 1..Len(requests) : requests[i].id = request_id}
    IN IF hits = {} THEN None
       ELSE Some(requests[CHOOSE i \in hits : \A j \in hits : j <= i])

\* commands.rs:208-210: requests.into_iter().find(|req| req.id == request_id)
find_by_id(requests, request_id) ==
    LET hits == {i \in 1..Len(requests) : requests[i].id = request_id}
    IN IF hits = {} THEN None
       ELSE Some(requests[CHOOSE i \in hits : \A j \in hits : i <= j])

InitOneShot ==
    /\ pc = "call"
    /\ args \in [op : {"show_logs"}, count : LogCounts, request_id : {0}]
                \cup [op : {"show_request_details"}, count : {0}, request_id : Ids]
    /\ result = [fetches |-> 0, count |-> 0, ret |-> "pending"]
    /\ method_filter \in Filters
    /\ show_headers \in BOOLEAN
    /\ full_body \in BOOLEAN
    /\ last_seen_ids = {}
    /\ first_run = TRUE
    /\ out = <<>>
    /\ errout = <<>>
    /\ outstanding = 0
    /\ response = NoResponse
    /\ poll_kind = "none"
    /\ marked = [id \in Ids |-> 0]
    /\ rendered = {}
    /\ fails = 0
    /\ successes = 0

\* commands.rs:140-147: show_logs up to the await of get_requests
ShowLogs_Fetch ==
    /\ pc = "call" /\ args.op = "show_logs"
    /\ pc' = "awaiting"
    /\ out' = <<Line("Fetching webhook logs...", 0)>>
    /\ outstanding' = outstanding + 1
    /\ result' = [result EXCEPT !.fetches = @ + 1, !.count = args.count]
    /\ UNCHANGED <<last_seen_ids, first_run, method_filter, show_headers, full_body,
                   errout, response, poll_kind, marked, rendered, fails, successes, args>>

ShowLogs_Complete_swallowsError ==
    /\ pc = "awaiting" /\ args.op = "show_logs"
    /\ \E resp \in Responses :
          LET r == get_requests(resp)
              filtered == filtered_requests(r.requests, method_filter)
          IN /\ response' = resp
             /\ IF filtered = <<>>
                THEN /\ out' = out \o <<Line("No requests found.", 0)>>
                     /\ result' = [result EXCEPT !.ret = Done]
                ELSE /\ out' = out \o <<Line("Found", Len(filtered))>>
                               \o (IF method_filter # None THEN <<Line("filter", 0)>> ELSE <<>>)
                               \o <<Line("rule", 0)>> \o RenderLogs(filtered)
                               \o <<Line("blank", 0), Line("hint", 0)>>
                     /\ result' = [result EXCEPT !.ret = Done]
    /\ pc' = "return"
    /\ outstanding' = outstanding - 1
    /\ UNCHANGED <<last_seen_ids, first_run, method_filter, show_headers, full_body,
                   errout, poll_kind, marked, rendered, fails, successes, args>>

\* commands.rs:147-196: get_requests completes; show_logs returns its error
\* or filters and renders the records
ShowLogs_Complete ==
    /\ pc = "awaiting" /\ args.op = "show_logs"
    /\ \E resp \in Responses :
          LET r == get_requests(resp)
              filtered == filtered_requests(r.requests, method_filter)
          IN /\ response' = resp
             /\ IF ~r.ok
                THEN /\ out' = out
                     /\ result' = [result EXCEPT !.ret = Failed(r.error)]
                ELSE IF filtered = <<>>
                THEN /\ out' = out \o <<Line("No requests found.", 0)>>
                     /\ result' = [result EXCEPT !.ret = Done]
                ELSE /\ out' = out \o <<Line("Found", Len(filtered))>>
                               \o (IF method_filter # None THEN <<Line("filter", 0)>> ELSE <<>>)
                               \o <<Line("rule", 0)>> \o RenderLogs(filtered)
                               \o <<Line("blank", 0), Line("hint", 0)>>
                     /\ result' = [result EXCEPT !.ret = Done]
    /\ pc' = "return"
    /\ outstanding' = outstanding - 1
    /\ UNCHANGED <<last_seen_ids, first_run, method_filter, show_headers, full_body,
                   errout, poll_kind, marked, rendered, fails, successes, args>>

\* commands.rs:204-206: show_request_details up to the await of get_requests
ShowRequestDetails_Fetch ==
    /\ pc = "call" /\ args.op = "show_request_details"
    /\ pc' = "awaiting"
    /\ out' = <<Line("Fetching request details...", 0)>>
    /\ outstanding' = outstanding + 1
    /\ result' = [result EXCEPT !.fetches = @ + 1, !.count = DetailsWindow]
    /\ UNCHANGED <<last_seen_ids, first_run, method_filter, show_headers, full_body,
                   errout, response, poll_kind, marked, rendered, fails, successes, args>>

\* commands.rs:206-215: get_requests completes; show_request_details returns
\* its error, or the not-found error, or renders the record it found
ShowRequestDetails_Complete ==
    /\ pc = "awaiting" /\ args.op = "show_request_details"
    /\ \E resp \in Responses :
          LET r == get_requests(resp)
              request == find_by_id(r.requests, args.request_id)
          IN /\ response' = resp
             /\ IF ~r.ok
                THEN /\ out' = out
                     /\ result' = [result EXCEPT !.ret = Failed(r.error)]
                ELSE IF request = None
                THEN /\ out' = out
                     /\ result' = [result EXCEPT
                                      !.ret = Failed(Failure("not found", 0, None))]
                ELSE /\ out' = out \o print_request_details(request[1])
                     /\ result' = [result EXCEPT !.ret = Done]
    /\ pc' = "return"
    /\ outstanding' = outstanding - 1
    /\ UNCHANGED <<last_seen_ids, first_run, method_filter, show_headers, full_body,
                   errout, poll_kind, marked, rendered, fails, successes, args>>

NextOneShot ==
    \/ ShowLogs_Fetch
    \/ ShowLogs_Complete
    \/ ShowRequestDetails_Fetch
    \/ ShowRequestDetails_Complete

SpecOneShot == InitOneShot /\ [][NextOneShot]_vars

(***************************************************************************)
(* Properties of the one-shot operations                                   *)
(***************************************************************************)
\* the lines with the key k
LinesOf(lines, k) == {i \in 1..Len(lines) : lines[i].k = k}

\* no record is rendered by the lines
NoRecord(lines) == LinesOf(lines, "summary") = {} /\ LinesOf(lines, "ID") = {}

\* C15: show_request_details fetches the window of 100 records once; when no
\* fetched record has the requested id it returns the not-found error and
\* renders no record; otherwise it renders exactly one record, the first one
\* with that id, with its headers, query parameters and body, and succeeds.
C15_DetailsOfFirstMatch ==
    (pc = "return" /\ args.op = "show_request_details") =>
        /\ result.fetches = 1 /\ result.count = DetailsWindow
        /\ ~FailedResponse(response) =>
              LET requests == IF response.status = StatusNotFound THEN <<>>
                              ELSE response.records
                  hits == {i \in 1..Len(requests) : requests[i].id = args.request_id}
              IN IF hits = {}
                 THEN /\ ~result.ret.ok /\ result.ret.error.kind = "not found"
                      /\ NoRecord(out)
                 ELSE /\ result.ret = Done
                      /\ \A k \in {"ID", "Method", "HEADERS", "QUERY PARAMETERS",
                                   "REQUEST BODY"} :
                            Cardinality(LinesOf(out, k)) = 1
                      /\ \A i \in LinesOf(out, "Method") :
                            \E h \in hits : /\ \A j \in hits : h <= j
                                            /\ out[i].v = requests[h].method
                      /\ \A k \in {"ID", "HEADERS", "QUERY PARAMETERS", "REQUEST BODY"} :
                            \A i \in LinesOf(out, k) : out[i].v = args.request_id

C15_Witness ==
    /\ pc = "return" /\ args.op = "show_request_details" /\ result.ret = Done
    /\ Len(response.records) = 2
    /\ response.records[1].id = response.records[2].id
    /\ response.records[1].method # response.records[2].method

\* C17: show_logs and show_request_details issue exactly one fetch; when it
\* fails they return its error and render no record; they end without a
\* second fetch and keep no seen-id state.
C17_OneShotFetchesOnce ==
    /\ [](pc = "return" =>
             /\ result.fetches = 1 /\ outstanding = 0
             /\ FailedResponse(response) =>
                   /\ result.ret = Failed(get_requests(response).error)
                   /\ NoRecord(out))
    /\ [](last_seen_ids = {} /\ first_run /\ rendered = {})
    /\ [][outstanding' > outstanding => pc = "call" /\ result.fetches = 0]_vars
    /\ [][pc = "return" => pc' = "return" /\ outstanding' = 0]_vars

C17_Witness ==
    /\ pc = "return" /\ args.op = "show_logs" /\ FailedResponse(response)
    /\ ~result.ret.ok /\ result.fetches = 1

(***************************************************************************)
(* The body renderer of display.rs                                         *)
(***************************************************************************)
\* str::contains for one character
contains(s, c) == \E i \in 1..Len(s) : s[i] = c

\* str::starts_with
starts_with(s, prefix) ==
    Len(s) >= Len(prefix) /\ SubSeq(s, 1, Len(prefix)) = prefix

\* display.rs:128: the form content-type token, kept as one symbol
FormContentType == <<"application/x-www-form-urlencoded">>

\* str::split for one character: the pieces between the separators
RECURSIVE split(_, _)
split(s, sep) ==
    IF ~contains(s, sep) THEN <<s>>
    ELSE LET i == CHOOSE k \in 1..Len(s) : s[k] = sep /\ \A j \in 1..(k - 1) : s[j] # sep
         IN <<SubSeq(s, 1, i - 1)>> \o split(SubSeq(s, i + 1, Len(s)), sep)

\* str::split_once for one character: the texts around its first occurrence
split_once(s, sep) ==
    IF ~contains(s, sep) THEN None
    ELSE LET i == CHOOSE k \in 1..Len(s) : s[k] = sep /\ \A j \in 1..(k - 1) : s[j] # sep
         IN Some(<<SubSeq(s, 1, i - 1), SubSeq(s, i + 1, Len(s))>>)

\* the character of a percent escape, for the escapes used here
Unescaped(h, l) ==
    CASE h = "2" /\ l = "6" -> Some("&")
      [] h = "3" /\ l = "D" -> Some("=")
      [] h = "3" /\ l = "1" -> Some("1")
      [] OTHER -> None

\* urlencoding::decode: a percent sign with two hex digits becomes the
\* character, anything else stays
RECURSIVE decode(_)
decode(s) ==
    IF s = <<>> THEN <<>>
    ELSE IF s[1] = "%" /\ Len(s) >= 3 /\ Unescaped(s[2], s[3]) # None
         THEN <<Unescaped(s[2], s[3])[1]>> \o decode(SubSeq(s, 4, Len(s)))
         ELSE <<s[1]>> \o decode(Tail(s))

\* display.rs:283-293: one pair of the form data
FormPair(pair) ==
    IF split_once(pair, "=") # None
    THEN decode(split_once(pair, "=")[1][1]) \o <<":", " ">> \o decode(split_once(pair, "=")[1][2])
    ELSE pair

\* display.rs:281-296: the lines of the formatted form data
format_form_data(data) ==
    LET pairs == split(data, "&")
    IN [i \in 1..Len(pairs) |-> FormPair(pairs[i])]

\* serde_json::Value: a number with its digits, or an object with its keys
\* and their values
Num(digits) == [t |-> "num", digits |-> digits, keys |-> <<>>, vals |-> <<>>]
Obj(keys, vals) == [t |-> "obj", digits |-> <<>>, keys |-> keys, vals |-> vals]

Digits == {"1", "2", "4"}

IsNumber(s) == s # <<>> /\ \A i \in 1..Len(s) : s[i] \in Digits

Answer == Num(<<"4", "2">>)

\* the documents {"u":{"i":42}} and {"u":42,"i":{"i":42}}
NestedDoc == Obj(<<<<"u">>>>, <<Obj(<<<<"i">>>>, <<Answer>>)>>)
FlatDoc == Obj(<<<<"u">>, <<"i">>>>, <<Answer, Obj(<<<<"i">>>>, <<Answer>>)>>)

Docs == {NestedDoc, FlatDoc}

\* serde_json::to_string: the compact text of a document
RECURSIVE ToJson(_)
RECURSIVE MembersToJson(_, _)
ToJson(v) ==
    IF v.t = "num" THEN v.digits
    ELSE <<"{">> \o MembersToJson(v.keys, v.vals) \o <<"}">>

MembersToJson(keys, vals) ==
    IF keys = <<>> THEN <<>>
    ELSE <<"\"">> \o Head(keys) \o <<"\"", ":">> \o ToJson(Head(vals))
         \o (IF Len(keys) > 1 THEN <<",">> ELSE <<>>)
         \o MembersToJson(Tail(keys), Tail(vals))

\* serde_json::from_str on the bodies used here: a number between optional
\* whitespace, the text of one of the documents, or an error (None)
from_str(body) ==
    LET t == trim(body)
    IN IF IsNumber(t) THEN Some(Num(t))
       ELSE IF \E d \in Docs : ToJson(d) = t
            THEN Some(CHOOSE d \in Docs : ToJson(d) = t)
            ELSE None

\* the member of an object for a key, as Map::get
Member(v, token) ==
    IF v.t = "obj" /\ \E i \in 1..Len(v.keys) : v.keys[i] = token
    THEN Some(v.vals[CHOOSE i \in 1..Len(v.keys) : v.keys[i] = token])
    ELSE None

\* the try_fold of Value::pointer over the reference tokens
RECURSIVE Resolve(_, _)
Resolve(v, tokens) ==
    IF tokens = <<>> THEN Some(v)
    ELSE IF Member(v, Head(tokens)) = None THEN None
         ELSE Resolve(Member(v, Head(tokens))[1], Tail(tokens))

\* serde_json::Value::pointer
pointer(json, path) ==
    IF path = <<>> THEN Some(json)
    ELSE IF path[1] # "/" THEN None
         ELSE Resolve(json, Tail(split(path, "/")))

RECURSIVE PathEntries_stopsAtMissing(_, _)
PathEntries_stopsAtMissing(json, parse_paths) ==
    IF parse_paths = <<>> \/ pointer(json, Head(parse_paths)) = None THEN <<>>
    ELSE <<Line("path", Head(parse_paths)),
           Line("json", pointer(json, Head(parse_paths))[1]),
           Line("blank", 0)>>
         \o PathEntries_stopsAtMissing(json, Tail(parse_paths))

\* display.rs:70-86 and 233-249: the for loop over parse_paths
RECURSIVE PathEntries(_, _)
PathEntries(json, parse_paths) ==
    IF parse_paths = <<>> THEN <<>>
    ELSE (IF pointer(json, Head(parse_paths)) # None
          THEN <<Line("path", Head(parse_paths)),
                 Line("json", pointer(json, Head(parse_paths))[1]),
                 Line("blank", 0)>>
          ELSE <<Line("path not found", Head(parse_paths))>>)
         \o PathEntries(json, Tail(parse_paths))

is_form_data_always(body) == TRUE

is_form_data_either(body) ==
    contains(body, "&") \/ contains(body, "=") \/ starts_with(body, FormContentType)

\* display.rs:126-128: the test for form data
is_form_data(body) ==
    contains(body, "&") /\ (contains(body, "=") \/ starts_with(body, FormContentType))

\* display.rs:50-150
print_full_request_body(body, parse_paths, full) ==
    IF body # None
    THEN IF trim(body[1]) = <<>>
         THEN IF parse_paths # <<>>
              THEN <<Line("PARSED JSON FIELDS", 0), Line("(empty body)", 0)>>
              ELSE <<Line("REQUEST BODY", 0), Line("rule", 0), Line("(empty)", 0)>>
         ELSE IF parse_paths # <<>>
              THEN IF from_str(body[1]) # None
                   THEN <<Line("PARSED JSON FIELDS", 0)>>
                        \o PathEntries(from_str(body[1])[1], parse_paths)
                        \o (IF full
                            THEN <<Line("REQUEST BODY", 0), Line("rule", 0),
                                   Line("json", from_str(body[1])[1]), Line("blank", 0)>>
                            ELSE <<>>)
                   ELSE <<Line("not valid JSON", 0), Line("raw", body[1])>>
                        \o (IF full
                            THEN <<Line("REQUEST BODY", 0), Line("rule", 0),
                                   Line("raw", body[1])>>
                            ELSE <<>>)
              ELSE <<Line("REQUEST BODY", 0), Line("rule", 0)>>
                   \o (IF from_str(body[1]) # None
                       THEN <<Line("json", from_str(body[1])[1]), Line("blank", 0)>>
                       ELSE IF is_form_data(body[1])
                            THEN <<Line("form", format_form_data(body[1]))>>
                            ELSE <<Line("raw", body[1])>>)
    ELSE IF parse_paths # <<>>
         THEN <<Line("PARSED JSON FIELDS", 0), Line("(no body)", 0)>>
         ELSE <<Line("REQUEST BODY", 0), Line("rule", 0), Line("(no body)", 0)>>

\* display.rs:204-259: the body section of print_request_details, which
\* does not read its third argument
print_request_details_body(body, parse_paths, full) ==
    IF parse_paths = <<>>
    THEN <<Line("REQUEST BODY", 0), Line("rule", 0)>>
         \o (IF body # None
             THEN IF trim(body[1]) = <<>>
                  THEN <<Line("(empty)", 0)>>
                  ELSE IF from_str(body[1]) # None
                       THEN <<Line("json", from_str(body[1])[1]), Line("blank", 0)>>
                       ELSE <<Line("raw", body[1])>>
             ELSE <<Line("(no body)", 0)>>)
    ELSE IF body # None /\ trim(body[1]) # <<>>
         THEN IF from_str(body[1]) # None
              THEN <<Line("PARSED JSON FIELDS", 0)>>
                   \o PathEntries(from_str(body[1])[1], parse_paths)
              ELSE <<Line("not valid JSON", 0), Line("raw", body[1])>>
         ELSE <<>>

TextAlphabet == {"a", "1", "&", "=", " ", FormContentType[1]}

\* the example a=1&b=2 and a pair with escapes, a=%26&%3D
ExampleForm == <<"a", "=", "1", "&", "b", "=", "2">>
EscapedForm == <<"a", "=", "%", "2", "6", "&", "%", "3", "D">>

TextBodies == SeqsUpTo(TextAlphabet, MaxBodyLen) \cup {ExampleForm, EscapedForm}

JsonBodies == {ToJson(d) : d \in Docs} \cup {Answer.digits}

PointerPaths ==
    {<<>>, <<"/", "u">>, <<"/", "u", "/", "i">>, <<"/", "i">>, <<"/", "i", "/", "i">>,
     <<"/", "a">>, <<"u">>, <<"/", "u", "/", "u">>}

InitBody ==
    /\ pc = "call"
    /\ args \in [body : {None} \cup {Some(b) : b \in TextBodies},
                  parse_paths : {<<>>, <<<<"/", "u">>>>},
                  full : BOOLEAN]
                \cup [body : {Some(b) : b \in JsonBodies},
                      parse_paths : SeqsUpTo(PointerPaths, MaxPaths),
                      full : BOOLEAN]
    /\ result = <<>>
    /\ MonitorNotRunning

ApplyPrintFullRequestBody ==
    Return([by |-> "print_full_request_body",
            lines |-> print_full_request_body(args.body, args.parse_paths, args.full)])

ApplyPrintRequestDetails ==
    Return([by |-> "print_request_details",
            lines |-> print_request_details_body(args.body, args.parse_paths, args.full)])

NextBody == ApplyPrintFullRequestBody \/ ApplyPrintRequestDetails

SpecBody == InitBody /\ [][NextBody]_vars

(***************************************************************************)
(* Properties of the body renderer                                         *)
(***************************************************************************)
UsedJson(lines) == \E i \in 1..Len(lines) : lines[i].k \in {"json", "path", "path not found"}
UsedForm(lines) == \E i \in 1..Len(lines) : lines[i].k = "form"
UsedRaw(lines) == \E i \in 1..Len(lines) : lines[i].k = "raw"

ExactlyOnePath(lines) ==
    /\ UsedJson(lines) \/ UsedForm(lines) \/ UsedRaw(lines)
    /\ ~(UsedJson(lines) /\ UsedForm(lines))
    /\ ~(UsedJson(lines) /\ UsedRaw(lines))
    /\ ~(UsedForm(lines) /\ UsedRaw(lines))

NonEmptyBody == args.body # None /\ trim(args.body[1]) # <<>>

Rendered == pc = "return" /\ result.by \in {"print_full_request_body", "print_request_details"}

\* C11: for every non-empty body and all options, in both renderers, exactly
\* one of the three paths is taken: the JSON path when the body parses, the
\* form-data path when it does not parse and is form-shaped, the raw
\* fallback otherwise.
C11_Cascade ==
    (Rendered /\ NonEmptyBody) =>
        /\ ExactlyOnePath(result.lines)
        /\ UsedJson(result.lines) <=> from_str(args.body[1]) # None
        /\ (from_str(args.body[1]) = None /\ contains(args.body[1], "&")
            /\ contains(args.body[1], "=")) => UsedForm(result.lines)

\* C11 as the code has it: exactly one of the three paths is taken, the JSON
\* path exactly when the body parses; the form-data path is only taken by
\* print_full_request_body without parse paths, where a=1&b=2 gives the
\* lines "a: 1" and "b: 2"; with parse paths, and in print_request_details,
\* a body that does not parse is emitted verbatim.
C11_CascadeOfFullBodyOnly ==
    (Rendered /\ NonEmptyBody) =>
        /\ ExactlyOnePath(result.lines)
        /\ UsedJson(result.lines) <=> from_str(args.body[1]) # None
        /\ UsedForm(result.lines) =>
              /\ result.by = "print_full_request_body" /\ args.parse_paths = <<>>
              /\ contains(args.body[1], "&")
        /\ (result.by = "print_full_request_body" /\ args.parse_paths = <<>>
            /\ args.body[1] = ExampleForm) =>
              \E i \in 1..Len(result.lines) :
                  /\ result.lines[i].k = "form"
                  /\ result.lines[i].v = <<<<"a", ":", " ", "1">>, <<"b", ":", " ", "2">>>>
        /\ \A i \in 1..Len(result.lines) :
              result.lines[i].k = "raw" => result.lines[i].v = args.body[1]

C11_Witness ==
    /\ Rendered /\ result.by = "print_request_details"
    /\ args.body = Some(ExampleForm) /\ UsedRaw(result.lines)

\* a body that does not parse, given to print_full_request_body without
\* parse paths: the branch with the test for form data
FormTestReached ==
    /\ pc = "return" /\ result.by = "print_full_request_body"
    /\ args.parse_paths = <<>> /\ NonEmptyBody /\ from_str(args.body[1]) = None

\* number of separators in the text
Ampersands(s) == Cardinality({i \in 1..Len(s) : s[i] = "&"})

\* C12: a body that does not parse takes the form-data path exactly when it
\* contains both "&" and "=", or begins with the form content-type token
\* whether or not it contains "&" or "="; every other such body is emitted
\* verbatim.
C12_FormTest ==
    FormTestReached =>
        /\ UsedForm(result.lines) <=>
              \/ contains(args.body[1], "&") /\ contains(args.body[1], "=")
              \/ starts_with(args.body[1], FormContentType)
        /\ ~UsedForm(result.lines) =>
              \E i \in 1..Len(result.lines) :
                  result.lines[i].k = "raw" /\ result.lines[i].v = args.body[1]

\* C12 as the code has it: the form-data path is taken exactly when the body
\* contains "&" and, besides, contains "=" or begins with the form
\* content-type token; it gives one line per piece between the "&"; every
\* other such body is emitted verbatim.
C12_FormTestNeedsAmpersand ==
    FormTestReached =>
        /\ UsedForm(result.lines) <=>
              /\ contains(args.body[1], "&")
              /\ \/ contains(args.body[1], "=")
                 \/ starts_with(args.body[1], FormContentType)
        /\ \A i \in 1..Len(result.lines) :
              result.lines[i].k = "form" =>
                  Len(result.lines[i].v) = Ampersands(args.body[1]) + 1
        /\ ~UsedForm(result.lines) =>
              \E i \in 1..Len(result.lines) :
                  result.lines[i].k = "raw" /\ result.lines[i].v = args.body[1]

C12_Witness ==
    /\ FormTestReached /\ UsedRaw(result.lines)
    /\ starts_with(args.body[1], FormContentType) /\ contains(args.body[1], "=")

\* the marker of a body that is absent or empty
HasBodyMarker(lines) ==
    \E i \in 1..Len(lines) : lines[i].k \in {"(no body)", "(empty)", "(empty body)"}

HasHeading(lines, heading) == \E i \in 1..Len(lines) : lines[i].k = heading

\* C13: in both renderers and for all options a body that is absent or empty
\* after trimming gives the explicit marker and none of the three paths,
\* under the parsed-fields heading when there are parse paths and under the
\* request-body heading otherwise; it never gives nothing.
C13_EmptyBodyMarker ==
    (Rendered /\ ~NonEmptyBody) =>
        /\ result.lines # <<>>
        /\ HasBodyMarker(result.lines)
        /\ ~UsedJson(result.lines) /\ ~UsedForm(result.lines) /\ ~UsedRaw(result.lines)
        /\ IF args.parse_paths # <<>>
           THEN HasHeading(result.lines, "PARSED JSON FIELDS")
                /\ ~HasHeading(result.lines, "REQUEST BODY")
           ELSE HasHeading(result.lines, "REQUEST BODY")
                /\ ~HasHeading(result.lines, "PARSED JSON FIELDS")

\* the same statement for print_full_request_body alone
EmptyBodyMarkerOfFullBody ==
    (Rendered /\ ~NonEmptyBody /\ result.by = "print_full_request_body") =>
        /\ HasBodyMarker(result.lines)
        /\ ~UsedJson(result.lines) /\ ~UsedForm(result.lines) /\ ~UsedRaw(result.lines)
        /\ IF args.parse_paths # <<>>
           THEN HasHeading(result.lines, "PARSED JSON FIELDS")
                /\ ~HasHeading(result.lines, "REQUEST BODY")
           ELSE HasHeading(result.lines, "REQUEST BODY")
                /\ ~HasHeading(result.lines, "PARSED JSON FIELDS")

\* the entries of the parse paths among the lines, in order
Entries(lines) ==
    LET isEntry(l) == l.k \in {"path", "path not found"}
    IN SelectSeq(lines, isEntry)

\* C14: for a body that parses and a non-empty list of parse paths, both
\* renderers give exactly one entry per path, in the order of the paths: the
\* resolved value when the pointer resolves, the path-not-found marker with
\* the path otherwise; a path that does not resolve stops nothing.
C14_OneEntryPerPath ==
    (Rendered /\ NonEmptyBody /\ from_str(args.body[1]) # None /\ args.parse_paths # <<>>) =>
        LET json == from_str(args.body[1])[1]
            lines == result.lines
        IN /\ Len(Entries(lines)) = Len(args.parse_paths)
           /\ \A n \in 1..Len(args.parse_paths) :
                 /\ Entries(lines)[n].v = args.parse_paths[n]
                 /\ Entries(lines)[n].k = "path" <=> pointer(json, args.parse_paths[n]) # None
           /\ \A i \in 1..Len(lines) :
                 lines[i].k = "path" =>
                     /\ i < Len(lines) /\ lines[i + 1].k = "json"
                     /\ lines[i + 1].v = pointer(json, lines[i].v)[1]
           /\ (args.parse_paths[1] = <<"/", "u", "/", "i">> /\ args.body[1] = ToJson(NestedDoc)) =>
                 lines[2].k = "path" /\ lines[3].v = Answer
           /\ args.parse_paths[1] = <<"u">> => lines[2].k = "path not found"
           /\ HasHeading(lines, "PARSED JSON FIELDS")
           /\ ~HasHeading(lines, "not valid JSON")

C14_Witness ==
    /\ Rendered /\ Len(args.parse_paths) = 2 /\ Len(Entries(result.lines)) = 2
    /\ Entries(result.lines)[1].k = "path not found"
    /\ Entries(result.lines)[2].k = "path"

(***************************************************************************)
(* Properties of the seen set, the display order and the cycle             *)
(***************************************************************************)
\* C21: at every poll boundary the seen set is the set of the ids rendered
\* so far in the session, baseline and new: empty at the start, no id of a
\* record that was filtered out, and it never loses an id.
C21_SeenIsRendered ==
    /\ [](pc \in {"idle", "fetching", "sleeping"} => last_seen_ids = rendered)
    /\ [](pc = "idle" => last_seen_ids = {})
    /\ [][last_seen_ids \subseteq last_seen_ids']_vars
    /\ [][(pc = "fetching" /\ pc' = "sleeping") =>
             last_seen_ids' = last_seen_ids
                              \cup {out'[i].v : i \in {j \in 1..Len(out') : out'[j].k = "summary"}}]_vars

C21_Witness ==
    /\ pc = "sleeping" /\ poll_kind = "delta" /\ method_filter # None
    /\ Cardinality(last_seen_ids) = 1
    /\ Len(response.records) = 2 /\ Len(SummaryIds(out)) = 0
    /\ response.records[1].id \notin last_seen_ids

\* the command line runs one command: the monitor or a one-shot operation
InitCli == Init \/ InitOneShot

NextCli == Next \/ NextOneShot

SpecCli == InitCli /\ [][NextCli]_vars

\* the ids a are those of records of the batch b that pass the method
\* filter, at positions that increase
IsDisplayedSubsequence(a, b) ==
    \E f \in [1..Len(a) -> 1..Len(b)] :
        /\ \A n \in 1..Len(a) : f[n] \in Passing(b) /\ b[f[n]].id = a[n]
        /\ \A n, m \in 1..Len(a) : n < m => f[n] < f[m]

\* a fetch has been answered: the monitor is at its sleep, or show_logs returned
FetchDisplayed ==
    \/ pc = "sleeping"
    \/ pc = "return" /\ args.op = "show_logs"

\* C22: in monitor_requests and in show_logs the records displayed from one
\* fetch are a subsequence of the fetched batch: in the order of the fetch,
\* the filter and the seen set only removing records.
C22_DisplayedIsSubsequence ==
    FetchDisplayed =>
        /\ IsDisplayedSubsequence(SummaryIds(out), get_requests(response).requests)
        /\ Len(SummaryIds(out)) <= Len(get_requests(response).requests)

C22_Witness ==
    /\ pc = "sleeping" /\ poll_kind = "baseline"
    /\ SummaryIds(out) = <<2, 1>>

C22_WitnessOfShowLogs ==
    /\ pc = "return" /\ args.op = "show_logs"
    /\ SummaryIds(out) = <<2, 1>>

\* C23: the monitor cycles fetch, classification and rendering, sleep, fetch:
\* every answered fetch, successful or failed, is followed by the sleep, the
\* sleep is only entered from an answered fetch, every fetch but the first
\* is issued from the sleep, and nothing is rendered during the sleep.
C23_OneSleepBetweenFetches ==
    /\ [][pc = "fetching" => pc' \in {"sleeping", "cancelled"}]_vars
    /\ [][pc' = "sleeping" =>
             /\ pc = "fetching"
             /\ poll_kind' \in {"baseline", "delta", "error"}
             /\ FailedResponse(response') <=> poll_kind' = "error"]_vars
    /\ [][pc = "sleeping" =>
             /\ pc' \in {"fetching", "cancelled"}
             /\ out' = <<>> /\ errout' = <<>>
             /\ last_seen_ids' = last_seen_ids]_vars
    /\ [][outstanding' > outstanding =>
             /\ pc \in {"idle", "sleeping"}
             /\ pc = "idle" <=> (successes = 0 /\ fails = 0 /\ poll_kind = "none" /\ out = <<>>)
             /\ pc' = "fetching"]_vars

C23_Witness == pc = "fetching" /\ successes = 2 /\ fails >= 1

\* the complete document follows the entries of the parse paths: after the
\* last entry there is the request-body heading and then the document
FullDocumentAfterEntries(lines, json) ==
    \E h, d \in 1..Len(lines) :
        /\ h < d
        /\ lines[h].k = "REQUEST BODY"
        /\ lines[d].k = "json" /\ lines[d].v = json
        /\ \A i \in 1..Len(lines) : lines[i].k \in {"path", "path not found"} => i < h

FullWithPaths ==
    /\ Rendered /\ NonEmptyBody /\ from_str(args.body[1]) # None
    /\ args.parse_paths # <<>> /\ args.full

\* C24: when full_body is requested together with parse paths and the body
\* parses, the complete document is rendered after the section of the parse
\* paths, in full-body rendering and in detail rendering.
C24_FullDocumentAfterPaths ==
    FullWithPaths =>
        /\ Len(Entries(result.lines)) = Len(args.parse_paths)
        /\ FullDocumentAfterEntries(result.lines, from_str(args.body[1])[1])

\* the same statement for print_full_request_body alone
FullDocumentAfterPathsOfFullBody ==
    (FullWithPaths /\ result.by = "print_full_request_body") =>
        /\ Len(Entries(result.lines)) = Len(args.parse_paths)
        /\ FullDocumentAfterEntries(result.lines, from_str(args.body[1])[1])

\* print_request_details gives the same lines with and without full_body
DetailsIgnoreFullBody ==
    (pc = "return" /\ result.by = "print_request_details") =>
        result.lines = print_request_details_body(args.body, args.parse_paths, ~args.full)

(***************************************************************************)
(* Config::join_url_segments                                               *)
(***************************************************************************)
\* config.rs:59-61: str::trim_end_matches('/')
RECURSIVE normalize_base_url(_)
normalize_base_url(url) ==
    IF url # <<>> /\ url[Len(url)] = "/"
    THEN normalize_base_url(SubSeq(url, 1, Len(url) - 1))
    ELSE url

\* config.rs:68-73: the for loop over the segments, url given so far
RECURSIVE PushSegments(_, _)
PushSegments(url, segments) ==
    IF segments = <<>> THEN url
    ELSE IF Head(segments) # <<>>
         THEN PushSegments(url \o <<"/">> \o Head(segments), Tail(segments))
         ELSE PushSegments(url, Tail(segments))

\* config.rs:64-76
join_url_segments(base, segments) == PushSegments(normalize_base_url(base), segments)

UrlAlphabet == {"/", "a"}

InitJoin ==
    /\ pc = "call"
    /\ args \in [base : SeqsUpTo(UrlAlphabet, MaxBaseLen),
                  segments : SeqsUpTo(SeqsUpTo(UrlAlphabet, MaxSegmentLen), MaxSegments)]
    /\ result = <<>>
    /\ MonitorNotRunning

ApplyJoinUrlSegments == Return(join_url_segments(args.base, args.segments))

SpecJoin == InitJoin /\ [][ApplyJoinUrlSegments]_vars

\* number of places where two slashes follow each other
DoubleSlashes(s) == Cardinality({i \in 1..(Len(s) - 1) : s[i] = "/" /\ s[i + 1] = "/"})

RECURSIVE SumDoubleSlashes(_)
SumDoubleSlashes(segments) ==
    IF segments = <<>> THEN 0
    ELSE DoubleSlashes(Head(segments)) + SumDoubleSlashes(Tail(segments))

\* the text is the base followed by a slash and the segment for each
\* non-empty segment from position n on
RECURSIVE JoinedFrom(_, _, _, _)
JoinedFrom(text, at, segments, n) ==
    IF n > Len(segments) THEN at = Len(text)
    ELSE IF segments[n] = <<>> THEN JoinedFrom(text, at, segments, n + 1)
         ELSE /\ Len(text) >= at + 1 + Len(segments[n])
              /\ text[at + 1] = "/"
              /\ SubSeq(text, at + 2, at + 1 + Len(segments[n])) = segments[n]
              /\ JoinedFrom(text, at + 1 + Len(segments[n]), segments, n + 1)

\* the base without its trailing slashes, found without the recursion
Stem(base) ==
    LET kept == {i \in 1..Len(base) : base[i] # "/"}
    IN IF kept = {} THEN <<>>
       ELSE SubSeq(base, 1, CHOOSE i \in kept : \A j \in kept : j <= i)

JoinedAsClaimed ==
    pc = "return" =>
        /\ Len(result) >= Len(Stem(args.base))
        /\ SubSeq(result, 1, Len(Stem(args.base))) = Stem(args.base)
        /\ JoinedFrom(result, Len(Stem(args.base)), args.segments, 1)

\* C25: join_url_segments gives the base without trailing slashes followed
\* by a slash and the segment for every non-empty segment in order, and no
\* double slash is introduced at a join point: the result has only the
\* double slashes of the base and of the segments themselves.
C25_JoinWithoutDoubleSlash ==
    pc = "return" =>
        /\ JoinedAsClaimed
        /\ DoubleSlashes(result)
              = DoubleSlashes(Stem(args.base)) + SumDoubleSlashes(args.segments)

\* no double slash is introduced when no segment begins or ends with a slash
NoDoubleSlashForPlainSegments ==
    (pc = "return"
     /\ \A n \in 1..Len(args.segments) :
           args.segments[n] # <<>> =>
               /\ args.segments[n][1] # "/"
               /\ args.segments[n][Len(args.segments[n])] # "/") =>
        DoubleSlashes(result)
            = DoubleSlashes(Stem(args.base)) + SumDoubleSlashes(args.segments)

====
